---- MODULE Spec2Model ----
(***************************************************************************)
(* Model of the multi-agent task service, 03-crewai-compose/app.py: the    *)
(* agent registry, the Redis-backed task store with per-key TTL, and the   *)
(* POST /tasks and GET /tasks/{task_id} handlers (specification Spec); and *)
(* of the document endpoints of 04-langchain-gpu/app.py (specification     *)
(* SpecLangChain); and of the authenticated endpoints of                   *)
(* 05-security-scans/app.py (specification SpecSecurity).  The services    *)
(* are separate processes: each specification leaves the state of the      *)
(* other ones as it is at import.  SpecStoredData and SpecEventLoop are    *)
(* the task service with a Redis server that other clients write to, and   *)
(* the task service on the one event loop of uvicorn.run.                  *)
(*                                                                         *)
(* Strings are sequences of tokens, so that formatting and substring tests *)
(* are computed.  Time is in whole seconds.  Every request occupies one    *)
(* slot; POST /tasks is split at the points where it touches shared state  *)
(* (uuid4, the blocking sleep of the worker, the Redis write), because the *)
(* test suite drives the handlers from several threads at once.            *)
(***************************************************************************)
EXTENDS Integers, Sequences, FiniteSets, TLC

VARIABLES
    redis_client,   \* TRUE: the client object made at import; FALSE: None
    redis_up,       \* whether the Redis server answers commands right now
    store,          \* the Redis keyspace: key -> [value, expires_at]
    now,            \* the clock (time.time(), Redis' own clock), in seconds
    issued,         \* the ids uuid4 has handed out so far
    agents,         \* the module-level registry dict: key -> Agent
    reqs,           \* one record per request slot
    embeddings,     \* 04-langchain-gpu: TRUE once the embedding model is loaded
    vectorstore,    \* 04-langchain-gpu: None, or the Chroma store of the last embed
    lc_last,        \* 04-langchain-gpu: the last request and its response
    sec_now,        \* 05-security-scans: int(time.time()) of that service
    sec_hashed,     \* 05-security-scans: the data hash_data has hashed so far
    sec_last        \* 05-security-scans: the last request and its response

vars == <<redis_client, redis_up, store, now, issued, agents, reqs>>
lc_vars == <<embeddings, vectorstore, lc_last>>
sec_vars == <<sec_now, sec_hashed, sec_last>>

---------------------------------------------------------------------------
(* Bounds of the model.                                                    *)

MaxReqs == 2
MaxTime == 3600
ClockStep == 1800

\* the clock of 05-security-scans runs from SecStartTime to SecMaxTime
SecStartTime == 600
SecMaxTime == 1200
SecClockStep == 300

Slots == 1..MaxReqs
UUIDs == 1..(MaxReqs + 1)

---------------------------------------------------------------------------
(* Values.                                                                 *)

TTL == 3600

Missing == "<missing>"

\* Python's None, where a variable holds None or an object
None == [none |-> TRUE]

Descs == { <<"Research", "AI">>, <<"AI">> }
TaskTypes == {"researcher", "writer", "analyst", "unknown-type"}

\* JSON bodies of POST /tasks; either field may be absent
Bodies == [task_description : Descs, task_type : TaskTypes \cup {Missing}]
            \cup [task_description : {<<Missing>>}, task_type : {"writer", Missing}]

\* substring test on token sequences: sub in s
Contains(s, sub) ==
    \E i \in 1..(Len(s) - Len(sub) + 1) : SubSeq(s, i, i + Len(sub) - 1) = sub

---------------------------------------------------------------------------
(* The agent registry.                                                     *)

Agent(name, role, goal) == [name |-> name, role |-> role, goal |-> goal]

\* the dict literal the module builds at import
InitialAgents ==
    [k \in {"researcher", "writer", "analyst"} |->
        CASE k = "researcher" ->
                Agent(<<"Research Agent">>, "Researcher", "Find and analyze information")
          [] k = "writer" ->
                Agent(<<"Writer Agent">>, "Content Creator", "Create engaging content")
          [] k = "analyst" ->
                Agent(<<"Data Analyst">>, "Analyst", "Analyze data and provide insights")]

\* faulty variant: the worker's text leaves the description out
execute_task_NoDescription(agent, task_description) ==
    <<"[">> \o agent.name \o <<"] Completed: ">>

\* f"[{self.name}] Completed: {task_description}"
execute_task(agent, task_description) ==
    <<"[">> \o agent.name \o <<"] Completed: ">> \o task_description

---------------------------------------------------------------------------
(* Request and response models.                                            *)

\* faulty variant: another default for the type
DefaultTaskType_General == "general"

\* faulty variant: a body without description passes validation
TaskRequestValid_Lenient(body) == TRUE

\* pydantic: task_description is required, task_type defaults
DefaultTaskType == "research"

TaskRequestValid(body) == body.task_description # <<Missing>>

TaskRequest(body) ==
    [task_description |-> body.task_description,
     task_type |-> IF body.task_type = Missing THEN DefaultTaskType
                   ELSE body.task_type]

TaskResponse(task_id, status, result) ==
    [code |-> 200, task_id |-> task_id, status |-> status, result |-> result]

HTTPException(status_code, detail) ==
    [code |-> status_code, detail |-> detail]

NoResponse == [code |-> 0]

\* faulty variant: the requested type is used as it came, registered or not
SelectAgent_Raw(task_type) == task_type

\* faulty variant: the fallback is another agent
SelectAgent_FallbackWriter(task_type) ==
    IF task_type \in {"researcher", "writer", "analyst"} THEN task_type ELSE "writer"

\* agent_name = task_type if task_type in agents else "researcher"
SelectAgent(task_type) ==
    IF task_type \in DOMAIN agents THEN task_type ELSE "researcher"

---------------------------------------------------------------------------
(* JSON.  A dict is a record together with the insertion order of its     *)
(* keys; its serialisation is the sequence of <<key, value>> pairs in that *)
(* order; loading a text gives the mapping, the last pair of a key winning.*)

json_dumps(obj, keys) == [i \in 1..Len(keys) |-> <<keys[i], obj[keys[i]]>>]

\* bytes of a text that are not JSON
Garbage == "<not json>"

\* json.loads raises JSONDecodeError on a text that is not JSON
JsonValid(text) == \A i \in DOMAIN text : text[i][1] # Garbage

JsonKeys(text) == { text[i][1] : i \in DOMAIN text }

json_loads(text) ==
    [k \in JsonKeys(text) |->
        LET last == CHOOSE i \in DOMAIN text :
                        /\ text[i][1] = k
                        /\ \A j \in DOMAIN text : text[j][1] = k => j <= i
        IN text[last][2]]

---------------------------------------------------------------------------
(* Redis.                                                                  *)

\* faulty variant: the key is made from a shortened id, so that ids share keys
TaskKey_Truncated(task_id) == <<"task:", (task_id + 1) \div 2>>

TaskKey(task_id) == <<"task:", task_id>>

\* SETEX key seconds value
Setex(s, key, seconds, value) ==
    [k \in DOMAIN s \cup {key} |->
        IF k = key THEN [value |-> value, expires_at |-> now + seconds]
        ELSE s[k]]

\* faulty variant: a key outlives its expiry
Live_IgnoresExpiry(s, key) == key \in DOMAIN s

\* GET key: an expired key is gone
Live(s, key) == key \in DOMAIN s /\ now < s[key].expires_at

\* faulty variant: an id source that can repeat an id it gave before
uuid4_Repeating == UUIDs

\* uuid.uuid4(): 122 random bits, idealised as never repeating
uuid4 == UUIDs \ issued

---------------------------------------------------------------------------
(* State.                                                                  *)

IdleReq ==
    [op |-> "none", pc |-> "idle",
     body |-> [task_description |-> <<Missing>>, task_type |-> Missing],
     task_id |-> 0, agent_name |-> "", result |-> <<>>,
     raised |-> "none", read_at |-> 0, response |-> NoResponse]

\* import time: the connection is tried once; a failure leaves None
Init ==
    /\ redis_up \in BOOLEAN
    /\ redis_client = redis_up
    /\ store = <<>>
    /\ now = 0
    /\ issued = {}
    /\ agents = InitialAgents
    /\ reqs = [s \in Slots |-> IdleReq]
    /\ embeddings = FALSE
    /\ vectorstore = None
    /\ lc_last = [op |-> "none", code |-> 0]
    /\ sec_now = SecStartTime
    /\ sec_hashed = {}
    /\ sec_last = [op |-> "none", code |-> 0]

---------------------------------------------------------------------------
(* POST /tasks                                                             *)

\* faulty variant: an unregistered type is entered into the registry
CreateTaskBegin_RegistersType(s, body) ==
    /\ reqs[s].pc = "idle"
    /\ IF ~TaskRequestValid(body)
       THEN /\ reqs' = [reqs EXCEPT ![s] =
                    [@ EXCEPT !.op = "create_task", !.pc = "done", !.body = body,
                              !.response = HTTPException(422, <<"field required">>)]]
            /\ UNCHANGED <<issued, agents>>
       ELSE \E id \in uuid4 :
            /\ issued' = issued \cup {id}
            /\ agents' = [k \in DOMAIN agents \cup {TaskRequest(body).task_type} |->
                            IF k \in DOMAIN agents THEN agents[k]
                            ELSE agents["researcher"]]
            /\ reqs' = [reqs EXCEPT ![s] =
                    [@ EXCEPT !.op = "create_task", !.pc = "execute", !.body = body,
                              !.task_id = id,
                              !.agent_name = SelectAgent(TaskRequest(body).task_type)]]
    /\ UNCHANGED <<redis_client, redis_up, store, now>>

\* lines 74-79: body validation, the id, the agent
CreateTaskBegin(s, body) ==
    /\ reqs[s].pc = "idle"
    /\ IF ~TaskRequestValid(body)
       THEN /\ reqs' = [reqs EXCEPT ![s] =
                    [@ EXCEPT !.op = "create_task", !.pc = "done", !.body = body,
                              !.response = HTTPException(422, <<"field required">>)]]
            /\ UNCHANGED issued
       ELSE \E id \in uuid4 :
            /\ issued' = issued \cup {id}
            /\ reqs' = [reqs EXCEPT ![s] =
                    [@ EXCEPT !.op = "create_task", !.pc = "execute", !.body = body,
                              !.task_id = id,
                              !.agent_name = SelectAgent(TaskRequest(body).task_type)]]
    /\ UNCHANGED <<redis_client, redis_up, store, now, agents>>

\* faulty variant: the failure is swallowed and a success is made up
CreateTaskExcept_Fabricated(e) ==
    [code |-> 200, task_id |-> 0, status |-> "completed", result |-> <<e>>]

\* faulty variant: the failure is answered as a successful response of a failed task
CreateTaskExcept_FailedTask(e) ==
    [code |-> 200, task_id |-> 0, status |-> "failed", result |-> <<e>>]

\* faulty variant: the failure leaves the handler uncaught
CreateTaskExcept_Uncaught(e) ==
    HTTPException(500, <<"Internal Server Error">>)

\* except Exception as e: HTTPException(500, f"Task execution failed: {str(e)}")
CreateTaskExcept(e) ==
    HTTPException(500, <<"Task execution failed: ", e>>)

\* faulty variant: a failing worker leaves a record of the failed task
CreateTaskExecute_RecordsFailure(s, worker_raises) ==
    /\ reqs[s].pc = "execute"
    /\ reqs' = [reqs EXCEPT ![s] =
            IF worker_raises
            THEN [@ EXCEPT !.pc = "done", !.raised = "worker",
                           !.response = CreateTaskExcept("worker error")]
            ELSE [@ EXCEPT !.pc = "store",
                           !.result = execute_task(agents[reqs[s].agent_name],
                                        TaskRequest(reqs[s].body).task_description)]]
    /\ store' = IF worker_raises /\ redis_client /\ redis_up
                THEN Setex(store, TaskKey(reqs[s].task_id), TTL,
                           <<<<"task_id", reqs[s].task_id>>, <<"status", "failed">>>>)
                ELSE store
    /\ UNCHANGED <<redis_client, redis_up, now, issued, agents>>

\* line 83: the worker runs (it blocks in time.sleep); it returns its text or
\* raises, and a raise is caught by the handler's except clause
CreateTaskExecute(s, worker_raises) ==
    /\ reqs[s].pc = "execute"
    /\ reqs' = [reqs EXCEPT ![s] =
            IF worker_raises
            THEN [@ EXCEPT !.pc = "done", !.raised = "worker",
                           !.response = CreateTaskExcept("worker error")]
            ELSE [@ EXCEPT !.pc = "store",
                           !.result = execute_task(agents[reqs[s].agent_name],
                                        TaskRequest(reqs[s].body).task_description)]]
    /\ UNCHANGED <<redis_client, redis_up, store, now, issued, agents>>

TaskDataKeys ==
    <<"task_id", "task_description", "task_type", "agent", "result", "status",
      "timestamp">>

\* faulty variant: the record is written as still running
TaskData_Running(r) ==
    [task_id |-> r.task_id,
     task_description |-> TaskRequest(r.body).task_description,
     task_type |-> TaskRequest(r.body).task_type,
     agent |-> r.agent_name,
     result |-> r.result,
     status |-> "running",
     timestamp |-> now]

\* lines 87-95
TaskData(r) ==
    [task_id |-> r.task_id,
     task_description |-> TaskRequest(r.body).task_description,
     task_type |-> TaskRequest(r.body).task_type,
     agent |-> r.agent_name,
     result |-> r.result,
     status |-> "completed",
     timestamp |-> now]

\* lines 98-102
CreateTaskResponse(r) == TaskResponse(r.task_id, "completed", r.result)

\* faulty variant: the response is returned first and the write is put off
CreateTaskStore_RespondsFirst(s) ==
    /\ reqs[s].pc = "store"
    /\ reqs' = [reqs EXCEPT ![s] =
            [@ EXCEPT !.pc = "done", !.response = CreateTaskResponse(reqs[s])]]
    /\ UNCHANGED <<redis_client, redis_up, store, now, issued, agents>>

\* lines 85-102: the record is written when there is a client, and the
\* response is returned; a failing SETEX is caught by the except clause
CreateTaskStore(s) ==
    /\ reqs[s].pc = "store"
    /\ IF redis_client
       THEN IF redis_up
            THEN /\ store' = Setex(store, TaskKey(reqs[s].task_id), TTL,
                                   json_dumps(TaskData(reqs[s]), TaskDataKeys))
                 /\ reqs' = [reqs EXCEPT ![s] =
                         [@ EXCEPT !.pc = "done", !.response = CreateTaskResponse(reqs[s])]]
            ELSE /\ reqs' = [reqs EXCEPT ![s] =
                         [@ EXCEPT !.pc = "done", !.raised = "store",
                                   !.response = CreateTaskExcept("ConnectionError")]]
                 /\ UNCHANGED store
       ELSE /\ reqs' = [reqs EXCEPT ![s] =
                    [@ EXCEPT !.pc = "done", !.response = CreateTaskResponse(reqs[s])]]
            /\ UNCHANGED store
    /\ UNCHANGED <<redis_client, redis_up, now, issued, agents>>

---------------------------------------------------------------------------
(* GET /tasks/{task_id}                                                    *)

\* the exception classes that `except Exception` catches
IsException(e) ==
    e.class \in {"HTTPException", "ConnectionError", "KeyError", "JSONDecodeError"}

\* str(e)
ExcStr(e) ==
    IF e.class = "HTTPException" THEN <<ToString(e.status_code), ": ">> \o e.detail
    ELSE <<e.class>>

\* faulty variant: the read uses the bare id as key, not f"task:{task_id}"
GetTaskTry_BareKey(task_id) ==
    IF ~redis_up
    THEN [raises |-> [class |-> "ConnectionError"]]
    ELSE IF ~Live(store, <<"", task_id>>)
    THEN [raises |-> [class |-> "HTTPException", status_code |-> 404,
                      detail |-> <<"Task not found">>]]
    ELSE [returns |-> TaskResponse(task_id, "completed", <<>>)]

\* faulty variant: with the server away the read falls back to the last
\* known value
GetTaskTry_StaleRead(task_id) ==
    IF ~Live(store, TaskKey(task_id))
    THEN [raises |-> [class |-> "HTTPException", status_code |-> 404,
                      detail |-> <<"Task not found">>]]
    ELSE LET data == json_loads(store[TaskKey(task_id)].value) IN
         [returns |-> TaskResponse(data["task_id"], data["status"], data["result"])]

\* faulty variant: fields that are missing are filled in (data.get) and a
\* response is built from what is there
GetTaskTry_Lenient(task_id) ==
    IF ~redis_up
    THEN [raises |-> [class |-> "ConnectionError"]]
    ELSE IF ~Live(store, TaskKey(task_id))
    THEN [raises |-> [class |-> "HTTPException", status_code |-> 404,
                      detail |-> <<"Task not found">>]]
    ELSE IF ~JsonValid(store[TaskKey(task_id)].value)
    THEN [raises |-> [class |-> "JSONDecodeError"]]
    ELSE LET data == json_loads(store[TaskKey(task_id)].value) IN
         [returns |-> TaskResponse(task_id,
                        IF "status" \in DOMAIN data THEN data["status"] ELSE "unknown",
                        IF "result" \in DOMAIN data THEN data["result"] ELSE <<>>)]

\* lines 113-122, the body of the try: what it returns or raises
GetTaskTry(task_id) ==
    IF ~redis_up
    THEN [raises |-> [class |-> "ConnectionError"]]
    ELSE IF ~Live(store, TaskKey(task_id))
    THEN [raises |-> [class |-> "HTTPException", status_code |-> 404,
                      detail |-> <<"Task not found">>]]
    ELSE IF ~JsonValid(store[TaskKey(task_id)].value)
    THEN [raises |-> [class |-> "JSONDecodeError"]]
    ELSE LET data == json_loads(store[TaskKey(task_id)].value) IN
         IF ~({"task_id", "status"} \subseteq DOMAIN data)
         THEN [raises |-> [class |-> "KeyError"]]
         ELSE [returns |-> TaskResponse(data["task_id"], data["status"],
                              IF "result" \in DOMAIN data THEN data["result"]
                              ELSE <<>>)]

\* lines 124-127: the except clauses, tried in order
GetTaskExcept(e) ==
    IF e.class = "JSONDecodeError"
    THEN HTTPException(500, <<"Invalid task data">>)
    ELSE IF IsException(e)
    THEN HTTPException(500, <<"Error retrieving task: ">> \o ExcStr(e))
    ELSE HTTPException(e.status_code, e.detail)

\* lines 108-127: the response of the handler in the current state
GetTaskResponse(task_id) ==
    IF ~redis_client
    THEN HTTPException(503, <<"Redis not available">>)
    ELSE LET out == GetTaskTry(task_id) IN
         IF "raises" \in DOMAIN out THEN GetTaskExcept(out.raises)
         ELSE out.returns

\* the class of the exception raised inside the try of get_task, if any
GetTaskRaised(task_id) ==
    IF redis_client /\ "raises" \in DOMAIN GetTaskTry(task_id)
    THEN GetTaskTry(task_id).raises.class
    ELSE "none"

GetTask(s, task_id) ==
    /\ reqs[s].pc = "idle"
    /\ reqs' = [reqs EXCEPT ![s] =
            [@ EXCEPT !.op = "get_task", !.pc = "done", !.task_id = task_id,
                      !.raised = GetTaskRaised(task_id), !.read_at = now,
                      !.response = GetTaskResponse(task_id)]]
    /\ UNCHANGED <<redis_client, redis_up, store, now, issued, agents>>

---------------------------------------------------------------------------
(* GET /health, GET / and GET /agents                                      *)

\* faulty variant: the service reports the state of Redis as its own
HealthCheckResponse_FollowsRedis ==
    [code |-> 200,
     status |-> IF redis_client /\ redis_up THEN "healthy" ELSE "unhealthy",
     redis |-> IF ~redis_client THEN "disconnected"
               ELSE IF redis_up THEN "healthy" ELSE "unhealthy",
     agents_available |-> Cardinality(DOMAIN agents)]

\* lines 58-71: a failing ping is caught by the bare except
HealthCheckResponse ==
    [code |-> 200,
     status |-> "healthy",
     redis |-> IF ~redis_client THEN "disconnected"
               ELSE IF redis_up THEN "healthy" ELSE "unhealthy",
     agents_available |-> Cardinality(DOMAIN agents)]

HealthCheck(s) ==
    /\ reqs[s].pc = "idle"
    /\ reqs' = [reqs EXCEPT ![s] =
            [@ EXCEPT !.op = "health_check", !.pc = "done",
                      !.response = HealthCheckResponse]]
    /\ UNCHANGED <<redis_client, redis_up, store, now, issued, agents>>

\* lines 50-55; list(agents.keys()) is given as the set of the keys
RootResponse ==
    [code |-> 200, message |-> "Simple Multi-Agent System API",
     agents |-> DOMAIN agents, redis_connected |-> redis_client]

Root(s) ==
    /\ reqs[s].pc = "idle"
    /\ reqs' = [reqs EXCEPT ![s] =
            [@ EXCEPT !.op = "root", !.pc = "done", !.response = RootResponse]]
    /\ UNCHANGED <<redis_client, redis_up, store, now, issued, agents>>

\* lines 130-140; the list is given as the set of its entries
ListAgentsResponse ==
    [code |-> 200,
     agents |-> { [name |-> agents[k].name, role |-> agents[k].role,
                   goal |-> agents[k].goal] : k \in DOMAIN agents }]

ListAgents(s) ==
    /\ reqs[s].pc = "idle"
    /\ reqs' = [reqs EXCEPT ![s] =
            [@ EXCEPT !.op = "list_agents", !.pc = "done",
                      !.response = ListAgentsResponse]]
    /\ UNCHANGED <<redis_client, redis_up, store, now, issued, agents>>

---------------------------------------------------------------------------
(* The environment: time passes, the Redis server goes away and comes back *)

Tick ==
    /\ now < MaxTime
    /\ now' = now + ClockStep
    /\ UNCHANGED <<redis_client, redis_up, store, issued, agents, reqs>>

RedisDown ==
    /\ redis_up
    /\ redis_up' = FALSE
    /\ UNCHANGED <<redis_client, store, now, issued, agents, reqs>>

\* faulty variant: the client is connected again when the server is back
RedisBack_Reconnects ==
    /\ ~redis_up
    /\ redis_up' = TRUE
    /\ redis_client' = TRUE
    /\ UNCHANGED <<store, now, issued, agents, reqs>>

RedisBack ==
    /\ ~redis_up
    /\ redis_up' = TRUE
    /\ UNCHANGED <<redis_client, store, now, issued, agents, reqs>>

---------------------------------------------------------------------------

Next ==
    /\ \/ \E s \in Slots, body \in Bodies : CreateTaskBegin(s, body)
       \/ \E s \in Slots, worker_raises \in BOOLEAN : CreateTaskExecute(s, worker_raises)
       \/ \E s \in Slots : CreateTaskStore(s)
       \/ \E s \in Slots, task_id \in UUIDs : GetTask(s, task_id)
       \/ \E s \in Slots : HealthCheck(s)
       \/ \E s \in Slots : Root(s)
       \/ \E s \in Slots : ListAgents(s)
       \/ Tick
       \/ RedisDown
       \/ RedisBack
    /\ UNCHANGED <<lc_vars, sec_vars>>

Spec == Init /\ [][Next]_vars

---------------------------------------------------------------------------
(* The Redis server is shared: get_task reads whatever is under the key,   *)
(* also a value that another client of the server has put there.           *)

MaxExternalKeys == 1

\* values another client may leave under a task key: bytes that are not
\* JSON, the empty object, objects that lack task_id or status, and an
\* object that has both and no result
ExternalTexts(task_id) ==
    { <<<<Garbage, "">>>>,
      <<>>,
      <<<<"status", "completed">>>>,
      <<<<"task_id", task_id>>, <<"result", <<"partial">>>>>>,
      <<<<"task_id", task_id>>, <<"status", "completed">>>> }

ExternalSetex(task_id, text) ==
    /\ redis_up
    /\ store' = Setex(store, TaskKey(task_id), TTL, text)
    /\ UNCHANGED <<redis_client, redis_up, now, issued, agents, reqs>>

NextStoredData ==
    /\ \/ \E task_id \in 1..MaxExternalKeys :
                \E text \in ExternalTexts(task_id) : ExternalSetex(task_id, text)
       \/ \E s \in Slots, task_id \in UUIDs : GetTask(s, task_id)
       \/ Tick
       \/ RedisDown
       \/ RedisBack
    /\ UNCHANGED <<lc_vars, sec_vars>>

SpecStoredData == Init /\ [][NextStoredData]_vars

---------------------------------------------------------------------------
(* The service on one event loop (uvicorn.run, one process): a handler is  *)
(* a coroutine, and the loop takes up another coroutine only when the one  *)
(* it runs has returned or is suspended at an await.                       *)

\* faulty variant: the worker's sleep is awaited (asyncio.sleep)
Awaits_AtWorker(pc) == pc = "execute"

\* the handlers are async def and hold no await: time.sleep and the Redis
\* calls block the loop's thread, they do not suspend the coroutine
Awaits(pc) == FALSE

\* the loop can run a step of the coroutine of slot s
OnLoop(s) ==
    \A t \in Slots \ {s} : reqs[t].pc \in {"idle", "done"} \/ Awaits(reqs[t].pc)

NextEventLoop ==
    /\ \/ \E s \in Slots, body \in Bodies : OnLoop(s) /\ CreateTaskBegin(s, body)
       \/ \E s \in Slots, worker_raises \in BOOLEAN :
                OnLoop(s) /\ CreateTaskExecute(s, worker_raises)
       \/ \E s \in Slots : OnLoop(s) /\ CreateTaskStore(s)
       \/ \E s \in Slots, task_id \in UUIDs : OnLoop(s) /\ GetTask(s, task_id)
       \/ \E s \in Slots : OnLoop(s) /\ HealthCheck(s)
       \/ \E s \in Slots : OnLoop(s) /\ Root(s)
       \/ \E s \in Slots : OnLoop(s) /\ ListAgents(s)
       \/ Tick
       \/ RedisDown
       \/ RedisBack
    /\ UNCHANGED <<lc_vars, sec_vars>>

SpecEventLoop == Init /\ [][NextEventLoop]_vars

---------------------------------------------------------------------------
(* 04-langchain-gpu: POST /embed-documents and POST /query-documents.      *)
(* The handlers have no await, so each runs as one step of the event loop. *)

MaxChunk == 2
MaxK == 2

LcTexts == { <<"ml", "is", "ai">>, <<"deep", "nets">>, <<"gpu">> }
LcChunking ==
    { c \in [chunk_size : 1..MaxChunk, chunk_overlap : 0..MaxChunk] :
        c.chunk_overlap # c.chunk_size }
LcQueries == {"what is ml", "nets"}

Min(a, b) == IF a <= b THEN a ELSE b

\* RecursiveCharacterTextSplitter.split_text on a token sequence: windows of
\* chunk_size tokens, each starting chunk_size - chunk_overlap after the last
RECURSIVE SplitFrom(_, _, _, _)
SplitFrom(text, i, size, step) ==
    IF i > Len(text) THEN <<>>
    ELSE <<SubSeq(text, i, Min(i + size - 1, Len(text)))>>
            \o (IF i + size - 1 >= Len(text) THEN <<>>
                ELSE SplitFrom(text, i + step, size, step))

split_text(text, chunk_size, chunk_overlap) ==
    SplitFrom(text, 1, chunk_size, chunk_size - chunk_overlap)

\* Chroma.from_documents(documents=...)
Chroma(documents) == [documents |-> documents]

\* faulty variant: an embed that fails drops the store it found
EmbedDocumentsTry_ClearsOnFailure(request, fails) ==
    IF ~embeddings /\ fails = "load"
    THEN [raises |-> [class |-> "OSError"], embeddings |-> FALSE,
          vectorstore |-> None]
    ELSE IF request.chunk_overlap > request.chunk_size
    THEN [raises |-> [class |-> "ValueError"], embeddings |-> TRUE,
          vectorstore |-> None]
    ELSE IF fails = "chroma"
    THEN [raises |-> [class |-> "ChromaError"], embeddings |-> TRUE,
          vectorstore |-> None]
    ELSE LET chunks == split_text(request.text, request.chunk_size,
                                  request.chunk_overlap)
         IN [returns |-> [code |-> 200, status |-> "success",
                          chunks_created |-> Len(chunks),
                          embedding_model |-> "all-MiniLM-L6-v2"],
             embeddings |-> TRUE,
             vectorstore |-> Chroma(chunks)]

\* lines 126-154, the body of the try: what it returns or raises, and the
\* globals it leaves.  `fails` is the step that raises: loading the embedding
\* model, building the store, or none
EmbedDocumentsTry(request, fails) ==
    IF ~embeddings /\ fails = "load"
    THEN [raises |-> [class |-> "OSError"], embeddings |-> FALSE,
          vectorstore |-> vectorstore]
    ELSE IF request.chunk_overlap > request.chunk_size
    THEN [raises |-> [class |-> "ValueError"], embeddings |-> TRUE,
          vectorstore |-> vectorstore]
    ELSE IF fails = "chroma"
    THEN [raises |-> [class |-> "ChromaError"], embeddings |-> TRUE,
          vectorstore |-> vectorstore]
    ELSE LET chunks == split_text(request.text, request.chunk_size,
                                  request.chunk_overlap)
         IN [returns |-> [code |-> 200, status |-> "success",
                          chunks_created |-> Len(chunks),
                          embedding_model |-> "all-MiniLM-L6-v2"],
             embeddings |-> TRUE,
             vectorstore |-> Chroma(chunks)]

\* lines 153-154
EmbedDocumentsExcept(e) ==
    HTTPException(500, <<"Document embedding failed: ">> \o ExcStr(e))

EmbedDocuments(request, fails) ==
    LET out == EmbedDocumentsTry(request, fails) IN
    /\ embeddings' = out.embeddings
    /\ vectorstore' = out.vectorstore
    /\ lc_last' = [op |-> "embed_documents"] @@
                    (IF "raises" \in DOMAIN out THEN EmbedDocumentsExcept(out.raises)
                     ELSE out.returns)
    /\ UNCHANGED vars

\* vectorstore.similarity_search(query, k): at most k documents of the store,
\* in the order of the store; which ones is left open
SimilaritySearches(query, k) ==
    LET docs == vectorstore.documents
        picks == { S \in SUBSET DOMAIN docs : Cardinality(S) = Min(k, Len(docs)) }
    IN { SelectSeq([i \in DOMAIN docs |-> IF i \in S THEN <<docs[i]>> ELSE <<>>],
                   LAMBDA d : d # <<>>) : S \in picks }

\* lines 158-175, the body of the try
QueryDocumentsTry(request, results, search_raises) ==
    IF vectorstore = None
    THEN [raises |-> [class |-> "HTTPException", status_code |-> 400,
                      detail |-> <<"No documents embedded yet",
                                   ". Use /embed-documents first.">>]]
    ELSE IF search_raises
    THEN [raises |-> [class |-> "ChromaError"]]
    ELSE [returns |-> [code |-> 200, query |-> request.query, results |-> results]]

\* lines 177-178: `except Exception` takes every exception of the try, the
\* HTTPException of line 160 included
QueryDocumentsExcept(e) ==
    HTTPException(500, <<"Document query failed: ">> \o ExcStr(e))

QueryDocumentsResponse(request, results, search_raises) ==
    LET out == QueryDocumentsTry(request, results, search_raises) IN
    IF "raises" \in DOMAIN out THEN QueryDocumentsExcept(out.raises)
    ELSE out.returns

QueryDocuments(request, search_raises) ==
    /\ \E results \in (IF vectorstore = None THEN {<<>>}
                       ELSE SimilaritySearches(request.query, request.k)) :
        lc_last' = [op |-> "query_documents"] @@
                        QueryDocumentsResponse(request, results, search_raises)
    /\ UNCHANGED <<embeddings, vectorstore>>
    /\ UNCHANGED vars

NextLangChain ==
    /\ \/ \E text \in LcTexts, c \in LcChunking, fails \in {"none", "load", "chroma"} :
            EmbedDocuments([text |-> text, chunk_size |-> c.chunk_size,
                            chunk_overlap |-> c.chunk_overlap], fails)
       \/ \E query \in LcQueries, k \in 1..MaxK, search_raises \in BOOLEAN :
            QueryDocuments([query |-> query, k |-> k], search_raises)
    /\ UNCHANGED sec_vars

SpecLangChain == Init /\ [][NextLangChain]_lc_vars

---------------------------------------------------------------------------
(* 05-security-scans: POST /secure-process and GET /security-info.         *)
(* The service keeps no state of its own; its clock and what it has hashed *)
(* are followed.                                                           *)

\* line 84: the replay window, in seconds
ReplayWindow == 300

\* lines 19-22
API_KEYS ==
    [k \in {"demo_key_123", "secure_key_456"} |->
        IF k = "demo_key_123" THEN "demo_user" ELSE "admin_user"]

\* a request without Authorization header, or without a bearer token in it
NoCredentials == "<no credentials>"

SecTokens == DOMAIN API_KEYS \cup {"wrong_key", "demo_key_12", "demo_user"}
Salts == {"salt-a", "salt-b"}

\* a str that data.encode() cannot encode (a lone surrogate)
LoneSurrogate == "\\ud800"

\* Optional[int]: <<>> is None, <<t>> is the int t
SecTimestamps == { <<>>, <<0>>, <<299>>, <<300>>, <<600>>, <<901>>, <<1501>> }
SecBodies == [data : {Missing, "hello", LoneSurrogate}, timestamp : SecTimestamps]

\* lines 24-26: data is required
SecureRequestValid(body) == body.data # Missing

\* the truth value of an Optional[int]: None and 0 are false
Truthy(timestamp) == timestamp # <<>> /\ timestamp[1] # 0

abs(x) == IF x < 0 THEN -x ELSE x

\* HTTPBearer(): without credentials the request is refused before the
\* dependency runs, with 403 or, in later FastAPI versions, 401
NotAuthenticated ==
    { HTTPException(code, <<"Not authenticated">>) : code \in {401, 403} }

\* faulty variant: an unknown token is taken for the demo user
verify_api_key_AnyToken(token) ==
    IF token \notin DOMAIN API_KEYS
    THEN [returns |-> "demo_user"]
    ELSE [returns |-> API_KEYS[token]]

\* lines 33-42
verify_api_key(token) ==
    IF token \notin DOMAIN API_KEYS
    THEN [raises |-> [class |-> "HTTPException", status_code |-> 401,
                      detail |-> <<"Invalid API key">>]]
    ELSE [returns |-> API_KEYS[token]]

\* lines 44-48: PBKDF2 of the data under a fresh random salt, in hex
hash_data(data, salt) == <<"pbkdf2_hmac-sha256(", data, salt, ")">>

\* lines 82-97, the body of the try: what it returns or raises
SecureProcessTry(request, salt) ==
    LET current_time == sec_now IN
    IF Truthy(request.timestamp)
        /\ abs(current_time - request.timestamp[1]) > ReplayWindow
    THEN [raises |-> [class |-> "HTTPException", status_code |-> 400,
                      detail |-> <<"Request timestamp too old or too far in future">>]]
    ELSE IF request.data = LoneSurrogate
    THEN [raises |-> [class |-> "UnicodeEncodeError"]]
    ELSE [returns |-> [code |-> 200,
                       result |-> <<"Securely processed: ">>
                                    \o hash_data(request.data, salt),
                       processed_at |-> current_time,
                       security_level |-> "high"]]

\* lines 99-103: `except Exception` takes every exception of the try, the
\* HTTPException of line 85 included
SecureProcessExcept(e) ==
    HTTPException(500, <<"Secure processing failed">>)

\* the response to a request that carries a bearer token
SecureProcessResponse(token, body, salt) ==
    IF "raises" \in DOMAIN verify_api_key(token)
    THEN HTTPException(verify_api_key(token).raises.status_code,
                       verify_api_key(token).raises.detail)
    ELSE IF ~SecureRequestValid(body)
    THEN HTTPException(422, <<"field required">>)
    ELSE LET out == SecureProcessTry(body, salt) IN
         IF "raises" \in DOMAIN out THEN SecureProcessExcept(out.raises)
         ELSE out.returns

SecureProcess(authorization, body, salt) ==
    /\ \E response \in (IF authorization = NoCredentials THEN NotAuthenticated
                        ELSE {SecureProcessResponse(authorization, body, salt)}) :
        /\ sec_last' = [op |-> "secure_process", authorization |-> authorization,
                        body |-> body, at |-> sec_now] @@ response
        /\ sec_hashed' = IF response.code = 200 THEN sec_hashed \cup {body.data}
                         ELSE sec_hashed
    /\ UNCHANGED sec_now

\* lines 105-122
SecurityInfoResponse(token) ==
    IF "raises" \in DOMAIN verify_api_key(token)
    THEN HTTPException(verify_api_key(token).raises.status_code,
                       verify_api_key(token).raises.detail)
    ELSE [code |-> 200, user |-> verify_api_key(token).returns,
          security_measures |-> [capabilities_dropped |-> TRUE,
                                 network_policies |-> "enabled"]]

SecurityInfo(authorization) ==
    /\ \E response \in (IF authorization = NoCredentials THEN NotAuthenticated
                        ELSE {SecurityInfoResponse(authorization)}) :
        sec_last' = [op |-> "security_info", authorization |-> authorization,
                     at |-> sec_now] @@ response
    /\ UNCHANGED <<sec_now, sec_hashed>>

SecTick ==
    /\ sec_now < SecMaxTime
    /\ sec_now' = sec_now + SecClockStep
    /\ UNCHANGED <<sec_hashed, sec_last>>

NextSecurity ==
    /\ \/ \E authorization \in SecTokens \cup {NoCredentials},
            body \in SecBodies, salt \in Salts :
                SecureProcess(authorization, body, salt)
       \/ \E authorization \in SecTokens \cup {NoCredentials} :
                SecurityInfo(authorization)
       \/ SecTick
    /\ UNCHANGED <<vars, lc_vars>>

SpecSecurity == Init /\ [][NextSecurity]_sec_vars

---------------------------------------------------------------------------
(* Vocabulary of the properties.                                           *)

Posts == { s \in Slots : reqs[s].op = "create_task" }
Gets == { s \in Slots : reqs[s].op = "get_task" }

\* the submissions that passed validation and were given an id
Submitted == { s \in Posts : TaskRequestValid(reqs[s].body) }

Finished(s) == reqs[s].pc = "done"
Succeeded(s) == Finished(s) /\ reqs[s].response.code = 200

Stored(task_id) == TaskKey(task_id) \in DOMAIN store
Record(task_id) == json_loads(store[TaskKey(task_id)].value)

NeverIssued(task_id) == task_id \notin issued

---------------------------------------------------------------------------
(* C1: GET /tasks/{id} for an id that no POST /tasks has returned answers  *)
(* 404 whenever the store is connected and the read itself did not fail.   *)
C1_UnknownIdIs404 ==
    \A g \in Gets :
        /\ NeverIssued(reqs[g].task_id)
        /\ redis_client
        /\ reqs[g].raised # "ConnectionError"
        => reqs[g].response.code = 404

(* C2, as stated: after every POST /tasks that returned 'completed' with   *)
(* id t, and while no record of t has expired, GET /tasks/t returns        *)
(* success with task_id t, status 'completed' and the POST's result.       *)
C2_EverySuccessfulPostReadsBack ==
    \A p \in Submitted :
        /\ Succeeded(p)
        /\ (Stored(reqs[p].task_id) => Live(store, TaskKey(reqs[p].task_id)))
        => GetTaskResponse(reqs[p].task_id) =
                TaskResponse(reqs[p].task_id, "completed", reqs[p].response.result)

(* C2, amended: a POST that returned 'completed' while the client is       *)
(* connected has left a record; while the store answers and the record has *)
(* not expired GET /tasks/t returns 200 with task_id t, status 'completed' *)
(* and the POST's result; and a GET that answered 200 for t carries what   *)
(* the submission with id t computed.                                      *)
C2_ConnectedPostReadsBack ==
    /\ \A p \in Submitted :
        Succeeded(p) /\ redis_client =>
            /\ Stored(reqs[p].task_id)
            /\ redis_up /\ Live(store, TaskKey(reqs[p].task_id)) =>
                    GetTaskResponse(reqs[p].task_id) =
                        TaskResponse(reqs[p].task_id, "completed",
                                     reqs[p].response.result)
    /\ \A g \in Gets :
        reqs[g].response.code = 200 =>
            \E p \in Submitted :
                /\ reqs[p].task_id = reqs[g].task_id
                /\ reqs[g].response =
                        TaskResponse(reqs[p].task_id, "completed", reqs[p].result)

C2_Witness ==
    \E p \in Submitted, g \in Gets :
        /\ Succeeded(p)
        /\ reqs[g].task_id = reqs[p].task_id
        /\ reqs[g].response = reqs[p].response

(* C3, as stated: Submit never answers 'completed' for a result that was   *)
(* not persisted.                                                          *)
C3_NoSuccessWithoutRecord ==
    \A p \in Submitted : Succeeded(p) => Stored(reqs[p].task_id)

(* C3, amended: when the Redis write raises, Submit answers HTTP 500 with  *)
(* the generic 'Task execution failed: ...' detail and leaves no record;   *)
(* when there is a client a 'completed' answer has a record behind it; and *)
(* with no client (the connection failed at start) persistence is skipped  *)
(* and Submit answers 'completed' with no record.                          *)
C3_WriteFailureIs500 ==
    \A p \in Submitted :
        /\ reqs[p].raised = "store" =>
                /\ Finished(p)
                /\ reqs[p].response.code = 500
                /\ Head(reqs[p].response.detail) = "Task execution failed: "
                /\ ~Stored(reqs[p].task_id)
        /\ Succeeded(p) /\ redis_client => Stored(reqs[p].task_id)
        /\ Finished(p) /\ ~redis_client /\ reqs[p].raised = "none" =>
                /\ reqs[p].response.code = 200
                /\ reqs[p].response.status = "completed"
                /\ ~Stored(reqs[p].task_id)

C3_Witness ==
    \E p \in Submitted :
        /\ reqs[p].raised = "store"
        /\ reqs[p].response.code = 500

(* C4, as stated: when the worker raises, the task is persisted with       *)
(* status Failed and Submit still answers with success.                    *)
C4_WorkerErrorPersistsFailedTask ==
    \A p \in Submitted :
        reqs[p].raised = "worker" =>
            /\ reqs[p].response.code = 200
            /\ Stored(reqs[p].task_id)
            /\ Record(reqs[p].task_id)["status"] = "failed"

(* C4, amended: when the worker raises, nothing is persisted for the task  *)
(* and Submit fails with HTTP 500, detail 'Task execution failed: ...';    *)
(* every record in the store has status 'completed'.                       *)
C4_WorkerErrorIs500 ==
    /\ \A p \in Submitted :
        reqs[p].raised = "worker" =>
            /\ Finished(p)
            /\ reqs[p].response.code = 500
            /\ Head(reqs[p].response.detail) = "Task execution failed: "
            /\ ~Stored(reqs[p].task_id)
    /\ \A id \in UUIDs : Stored(id) => Record(id)["status"] = "completed"

C4_Witness ==
    \E p \in Submitted :
        /\ reqs[p].raised = "worker"
        /\ Finished(p)
        /\ \E q \in Submitted : Stored(reqs[q].task_id)

---------------------------------------------------------------------------
\* what the submission in slot p asked for
Description(p) == TaskRequest(reqs[p].body).task_description
RequestedType(p) == TaskRequest(reqs[p].body).task_type
TypeOmitted(p) == reqs[p].body.task_type = Missing

\* the worker has returned in slot p
Executed(p) == reqs[p].pc = "store" \/ (Finished(p) /\ reqs[p].raised # "worker")

(* C5: for every submission, also one of an unregistered type, the agent   *)
(* chosen, the agent that produced the result and the 'agent' field of the *)
(* persisted record are a key of the registry, the default "researcher"    *)
(* when the type is unregistered; an unregistered type is no error: such a *)
(* submission completes unless the worker or the Redis write raises.       *)
C5_AgentIsRegistered ==
    /\ \A p \in Submitted :
        /\ reqs[p].agent_name \in DOMAIN agents
        /\ RequestedType(p) \notin DOMAIN agents => reqs[p].agent_name = "researcher"
        /\ Executed(p) =>
                reqs[p].result = execute_task(agents[reqs[p].agent_name], Description(p))
        /\ Finished(p) /\ reqs[p].raised = "none" =>
                reqs[p].response.code = 200 /\ reqs[p].response.status = "completed"
    /\ \A p \in Submitted :
        Stored(reqs[p].task_id) =>
            /\ Record(reqs[p].task_id)["agent"] \in DOMAIN agents
            /\ Record(reqs[p].task_id)["agent"] = reqs[p].agent_name

C5_Witness ==
    \E p \in Submitted :
        /\ reqs[p].body.task_type = "unknown-type"
        /\ Succeeded(p)
        /\ Stored(reqs[p].task_id)
        /\ Record(reqs[p].task_id)["agent"] = "researcher"

(* C6: a submission whose body omits the task type is given to the         *)
(* researcher, and unless the worker or the Redis write raises it answers  *)
(* 'completed' with a result naming 'Research Agent'.                      *)
C6_OmittedTypeRunsResearcher ==
    \A p \in Submitted :
        TypeOmitted(p) =>
            /\ reqs[p].agent_name = "researcher"
            /\ Executed(p) => Contains(reqs[p].result, <<"Research Agent">>)
            /\ Finished(p) /\ reqs[p].raised = "none" =>
                    /\ reqs[p].response.code = 200
                    /\ reqs[p].response.status = "completed"
                    /\ Contains(reqs[p].response.result, <<"Research Agent">>)

C6_Witness ==
    \E p \in Submitted :
        /\ TypeOmitted(p)
        /\ Succeeded(p)
        /\ Contains(reqs[p].response.result, <<"Research Agent">>)

(* C7, as stated: when the body omits the type, the task type recorded for *)
(* the task is "general".                                                  *)
C7_OmittedTypeRecordedGeneral ==
    \A p \in Submitted :
        TypeOmitted(p) /\ Stored(reqs[p].task_id) =>
            Record(reqs[p].task_id)["task_type"] = "general"

(* C7, amended: when the body omits the type, the task type recorded for   *)
(* the task is the default value "research".                               *)
C7_OmittedTypeRecordedResearch ==
    \A p \in Submitted :
        TypeOmitted(p) =>
            /\ RequestedType(p) = "research"
            /\ Stored(reqs[p].task_id) =>
                    Record(reqs[p].task_id)["task_type"] = "research"

C7_Witness ==
    \E p \in Submitted :
        /\ TypeOmitted(p)
        /\ Stored(reqs[p].task_id)
        /\ Record(reqs[p].task_id)["task_type"] = "research"

(* C8: the task ids of all submissions, in flight or answered, are         *)
(* pairwise distinct, and so are the ids of the stored records: every key  *)
(* of the store belongs to exactly one submission, whose id the record     *)
(* carries.                                                                *)
C8_TaskIdsDistinct ==
    /\ \A p, q \in Submitted : p # q => reqs[p].task_id # reqs[q].task_id
    /\ \A p, q \in Submitted :
        Succeeded(p) /\ Succeeded(q) /\ p # q =>
            reqs[p].response.task_id # reqs[q].response.task_id
    /\ \A id \in UUIDs :
        Stored(id) =>
            /\ Cardinality({ p \in Submitted : reqs[p].task_id = id }) = 1
            /\ Record(id)["task_id"] = id

C8_Witness ==
    \E p, q \in Submitted :
        /\ p # q
        /\ Succeeded(p) /\ Succeeded(q)
        /\ Stored(reqs[p].task_id) /\ Stored(reqs[q].task_id)

(* C9: under concurrent submissions every response and every persisted    *)
(* record carries the id, description, requested type, agent and result of *)
(* its own submission, never those of another one.                         *)
C9_NoCrossTalk ==
    \A p \in Submitted :
        LET own == execute_task(agents[SelectAgent(RequestedType(p))], Description(p))
        IN  /\ Succeeded(p) =>
                reqs[p].response = TaskResponse(reqs[p].task_id, "completed", own)
            /\ Stored(reqs[p].task_id) =>
                /\ Record(reqs[p].task_id)["task_id"] = reqs[p].task_id
                /\ Record(reqs[p].task_id)["task_description"] = Description(p)
                /\ Record(reqs[p].task_id)["task_type"] = RequestedType(p)
                /\ Record(reqs[p].task_id)["agent"] = SelectAgent(RequestedType(p))
                /\ Record(reqs[p].task_id)["result"] = own
                /\ Record(reqs[p].task_id)["status"] = "completed"

\* a submission is written while another one, of another description, is
\* between its worker and its write
C9_Witness ==
    \E p, q \in Submitted :
        /\ Succeeded(p) /\ Stored(reqs[p].task_id)
        /\ reqs[q].pc = "store"
        /\ Description(p) # Description(q)
        /\ store[TaskKey(reqs[p].task_id)].expires_at = now + TTL

\* the display names the registry gives
DisplayName(task_type) ==
    CASE task_type = "researcher" -> <<"Research Agent">>
      [] task_type = "writer" -> <<"Writer Agent">>
      [] task_type = "analyst" -> <<"Data Analyst">>

(* C10: for every registered type t and description d, Submit(d, t)        *)
(* answers 'completed', unless the worker or the Redis write raises, with  *)
(* a result that contains d and the display name of the agent under t.     *)
C10_ResultNamesAgentAndDescription ==
    \A p \in Submitted :
        reqs[p].body.task_type \in {"researcher", "writer", "analyst"} =>
            /\ Executed(p) =>
                    /\ Contains(reqs[p].result, Description(p))
                    /\ Contains(reqs[p].result, DisplayName(reqs[p].body.task_type))
            /\ Finished(p) /\ reqs[p].raised = "none" =>
                    /\ reqs[p].response.code = 200
                    /\ reqs[p].response.status = "completed"
                    /\ Contains(reqs[p].response.result, Description(p))
                    /\ Contains(reqs[p].response.result,
                                DisplayName(reqs[p].body.task_type))

C10_Witness ==
    \E p, q \in Submitted :
        /\ reqs[p].body.task_type = "analyst" /\ Succeeded(p)
        /\ Contains(reqs[p].response.result, <<"Data Analyst">>)
        /\ reqs[q].body.task_type = "writer" /\ Succeeded(q)
        /\ Contains(reqs[q].response.result, <<"Writer Agent">>)

---------------------------------------------------------------------------
\* the record of task_id is in the keyspace and its time to live has run out
Expired(task_id) ==
    Stored(task_id) /\ now >= store[TaskKey(task_id)].expires_at

\* the read of slot g was made when the record of its id had expired
ReadAfterExpiry(g) ==
    /\ Stored(reqs[g].task_id)
    /\ reqs[g].read_at >= store[TaskKey(reqs[g].task_id)].expires_at

\* the read of slot g reached the store and the store answered
ReadAnswered(g) == redis_client /\ reqs[g].raised # "ConnectionError"

HealthChecks == { s \in Slots : reqs[s].op = "health_check" }

(* C11: every record expires 3600 seconds after its write, and a GET       *)
(* /tasks/{id} made once that time has elapsed, the store being connected  *)
(* and answering, reports not-found (404) and never the record.            *)
C11_ExpiredReadsNotFound ==
    /\ \A id \in UUIDs :
        Stored(id) =>
            store[TaskKey(id)].expires_at = Record(id)["timestamp"] + 3600
    /\ \A g \in Gets :
        ReadAfterExpiry(g) /\ ReadAnswered(g) => reqs[g].response.code = 404

(* C12: with the store unavailable GET /tasks/{id} fails the request: 503  *)
(* when the client was never connected, 500 when the read raises; it never *)
(* answers not-found and never returns a record, even one that is stored   *)
(* and has not expired.                                                    *)
C12_UnavailableStoreFailsGet ==
    /\ \A id \in UUIDs :
        /\ ~redis_client =>
                GetTaskResponse(id) = HTTPException(503, <<"Redis not available">>)
        /\ redis_client /\ ~redis_up =>
                GetTaskResponse(id) =
                    HTTPException(500, <<"Error retrieving task: ", "ConnectionError">>)
    /\ \A g \in Gets :
        ~ReadAnswered(g) =>
            /\ reqs[g].response.code \in {500, 503}
            /\ "task_id" \notin DOMAIN reqs[g].response
            /\ ~Contains(reqs[g].response.detail, <<"Task not found">>)

C12_Witness ==
    \E g \in Gets :
        /\ reqs[g].raised = "ConnectionError"
        /\ reqs[g].response.code = 500
        /\ Live(store, TaskKey(reqs[g].task_id))
        /\ reqs[g].read_at = now

(* C13: a submission runs its worker once and writes at most once: a slot  *)
(* past the worker never returns to it and keeps its result, a finished    *)
(* submission is never taken up again (no retry), and a record, once in    *)
(* the store, is never overwritten or changed.                             *)
C13_WrittenOnce ==
    [][ /\ \A id \in UUIDs :
            Stored(id) =>
                /\ TaskKey(id) \in DOMAIN store'
                /\ store'[TaskKey(id)] = store[TaskKey(id)]
        /\ \A p \in Submitted :
            /\ reqs[p].pc = "store" =>
                    /\ reqs'[p].pc \in {"store", "done"}
                    /\ reqs'[p].result = reqs[p].result
            /\ Finished(p) => reqs'[p] = reqs[p]
      ]_vars

C13_Witness ==
    \E p, q \in Submitted :
        /\ p # q
        /\ Succeeded(p) /\ Stored(reqs[p].task_id)
        /\ Succeeded(q) /\ Stored(reqs[q].task_id)
        /\ Record(reqs[p].task_id)["timestamp"] < Record(reqs[q].task_id)["timestamp"]

(* C14: every record in the store has a terminal status; a submission that *)
(* is still in flight has no record, so a reader sees nothing or a         *)
(* terminal task; and the status of a stored record never changes.         *)
C14_OnlyTerminalRecords ==
    /\ [](/\ \A id \in UUIDs :
                Stored(id) => Record(id)["status"] \in {"completed", "failed"}
          /\ \A p \in Submitted :
                reqs[p].pc \in {"execute", "store"} => ~Stored(reqs[p].task_id)
          /\ \A g \in Gets :
                reqs[g].response.code = 200 =>
                    reqs[g].response.status \in {"completed", "failed"})
    /\ [][\A id \in UUIDs :
            Stored(id) =>
                json_loads(store'[TaskKey(id)].value)["status"] = Record(id)["status"]
         ]_vars

C14_Witness ==
    \E p \in Submitted, g \in Gets :
        /\ Succeeded(p)
        /\ reqs[g].task_id = reqs[p].task_id
        /\ reqs[g].response.code = 200
        /\ reqs[g].response.status = "completed"
        /\ reqs[g].read_at > Record(reqs[p].task_id)["timestamp"]

(* C15: GET /tasks/{id} answers an id whose record has expired exactly as  *)
(* it answers an id that never existed.                                    *)
C15_ExpiredLooksNeverExisted ==
    /\ \A a, b \in UUIDs :
        NeverIssued(a) /\ Expired(b) => GetTaskResponse(a) = GetTaskResponse(b)
    /\ \A g \in Gets, a \in UUIDs :
        /\ ReadAfterExpiry(g) /\ ReadAnswered(g)
        /\ NeverIssued(a) /\ redis_up
        => reqs[g].response = GetTaskResponse(a)

C15_Witness ==
    \E g \in Gets, a \in UUIDs :
        /\ ReadAfterExpiry(g) /\ ReadAnswered(g)
        /\ NeverIssued(a) /\ redis_up
        /\ reqs[g].response = GetTaskResponse(a)

(* C16: a POST /tasks without description is rejected at once with 422: it *)
(* gets no id, no agent and no result, and nothing is stored for it: the   *)
(* ids handed out and the records stored are those of the other            *)
(* submissions.                                                            *)
C16_MissingDescriptionRejected ==
    LET Accepted == { p \in Posts : reqs[p].body.task_description # <<Missing>> }
    IN  /\ \A p \in Posts \ Accepted :
            /\ Finished(p)
            /\ reqs[p].response.code = 422
            /\ reqs[p].task_id = 0
            /\ reqs[p].agent_name = ""
            /\ reqs[p].result = <<>>
        /\ issued = { reqs[p].task_id : p \in Accepted }
        /\ \A id \in UUIDs : Stored(id) => \E p \in Accepted : reqs[p].task_id = id

C16_Witness ==
    \E p, q \in Posts :
        /\ reqs[p].body.task_description = <<Missing>>
        /\ reqs[p].response.code = 422
        /\ Succeeded(q)
        /\ DOMAIN store = {TaskKey(reqs[q].task_id)}

(* C17: GET /health answers 200 with status 'healthy' and agents_available *)
(* 3 in every state, also with no client or a failing ping, and on every   *)
(* one of several calls.                                                   *)
C17_HealthAlwaysHealthy ==
    /\ HealthCheckResponse.code = 200
    /\ HealthCheckResponse.status = "healthy"
    /\ HealthCheckResponse.agents_available = 3
    /\ \A h \in HealthChecks :
        /\ reqs[h].response.code = 200
        /\ reqs[h].response.status = "healthy"
        /\ reqs[h].response.agents_available = 3

C17_Witness ==
    \E h, k \in HealthChecks :
        /\ reqs[h].response.redis = "healthy"
        /\ reqs[k].response.redis = "unhealthy"

(* C18: the registry is never changed: in every state it holds exactly the *)
(* agents researcher, writer and analyst with the name, role and goal they *)
(* were built with, GET / and GET /agents report these three, and choosing *)
(* the agent of a submission changes neither registry nor store.           *)
C18_RegistryNeverMutated ==
    /\ [](/\ DOMAIN agents = {"researcher", "writer", "analyst"}
          /\ agents["researcher"] =
                Agent(<<"Research Agent">>, "Researcher", "Find and analyze information")
          /\ agents["writer"] =
                Agent(<<"Writer Agent">>, "Content Creator", "Create engaging content")
          /\ agents["analyst"] =
                Agent(<<"Data Analyst">>, "Analyst", "Analyze data and provide insights")
          /\ \A s \in Slots :
                /\ reqs[s].op = "root" =>
                        reqs[s].response.agents = {"researcher", "writer", "analyst"}
                /\ reqs[s].op = "list_agents" =>
                        Cardinality(reqs[s].response.agents) = 3)
    /\ [][(\E s \in Slots, body \in Bodies : CreateTaskBegin(s, body))
            => agents' = agents /\ store' = store]_vars

C18_Witness ==
    \E p \in Submitted, s \in Slots :
        /\ reqs[p].body.task_type = "unknown-type"
        /\ Finished(p)
        /\ reqs[s].op = "list_agents"
        /\ reqs[s].response = ListAgentsResponse

(* C19, as stated: every error answered by a submission that has its id    *)
(* carries that id.                                                        *)
C19_ErrorsCarryTaskId ==
    \A p \in Submitted :
        Finished(p) /\ reqs[p].raised # "none" =>
            \/ /\ "task_id" \in DOMAIN reqs[p].response
               /\ reqs[p].response.task_id = reqs[p].task_id
            \/ /\ "detail" \in DOMAIN reqs[p].response
               /\ Contains(reqs[p].response.detail, <<ToString(reqs[p].task_id)>>)

(* C19, amended: an error answered by a submission that has its id (worker *)
(* failure or storage failure) is HTTP 500 with the detail 'Task execution *)
(* failed: ' followed by the text of the exception, and carries no task    *)
(* id; the id is returned by successful submissions only.                  *)
C19_ErrorsCarryNoTaskId ==
    \A p \in Submitted :
        /\ reqs[p].raised # "none" =>
                /\ DOMAIN reqs[p].response = {"code", "detail"}
                /\ reqs[p].response.code = 500
                /\ Len(reqs[p].response.detail) = 2
                /\ reqs[p].response.detail[1] = "Task execution failed: "
                /\ reqs[p].response.detail[2] \in {"worker error", "ConnectionError"}
        /\ Finished(p) /\ reqs[p].raised = "none" =>
                reqs[p].response.task_id = reqs[p].task_id

C19_Witness ==
    \E p, q \in Submitted :
        /\ reqs[p].raised = "worker"
        /\ reqs[q].raised = "store"
        /\ "task_id" \notin DOMAIN reqs[p].response
        /\ "task_id" \notin DOMAIN reqs[q].response

---------------------------------------------------------------------------
(* C20: in the LangChain service a POST /query-documents made while no     *)
(* document has been embedded (vectorstore is None) is answered with HTTP  *)
(* 400 and a detail that contains 'No documents embedded yet'.             *)
C20_QueryBeforeEmbedIs400 ==
    lc_last.op = "query_documents" /\ vectorstore = None =>
        /\ lc_last.code = 400
        /\ Contains(lc_last.detail, <<"No documents embedded yet">>)

---------------------------------------------------------------------------
(* C21: within one submission the agent is resolved, then the worker runs, *)
(* then the record is written, then the response is returned: a submission *)
(* whose worker has not returned has its agent and no record, a record     *)
(* holds the result its worker returned, and with a connected client the   *)
(* step that returns the success response is the step that has written the *)
(* record.                                                                 *)
C21_StepsInOrder ==
    /\ [](\A p \in Submitted :
            /\ reqs[p].agent_name \in DOMAIN agents
            /\ reqs[p].pc = "execute" =>
                    reqs[p].result = <<>> /\ ~Stored(reqs[p].task_id)
            /\ reqs[p].pc = "store" =>
                    reqs[p].result # <<>> /\ ~Stored(reqs[p].task_id)
            /\ Stored(reqs[p].task_id) =>
                    /\ reqs[p].result # <<>>
                    /\ Record(reqs[p].task_id)["result"] = reqs[p].result
            /\ Succeeded(p) /\ redis_client =>
                    /\ Stored(reqs[p].task_id)
                    /\ Record(reqs[p].task_id)["result"] = reqs[p].response.result)
    /\ [][\A s \in Slots :
            /\ reqs[s].pc = "store"
            /\ reqs'[s].pc = "done"
            /\ reqs'[s].response.code = 200
            /\ redis_client
            => /\ TaskKey(reqs[s].task_id) \notin DOMAIN store
               /\ TaskKey(reqs[s].task_id) \in DOMAIN store'
               /\ store'[TaskKey(reqs[s].task_id)].expires_at = now + TTL
         ]_vars

C21_Witness ==
    \E p, q \in Submitted :
        /\ Succeeded(p) /\ redis_client
        /\ Stored(reqs[p].task_id)
        /\ reqs[q].pc = "store"
        /\ ~Stored(reqs[q].task_id)

---------------------------------------------------------------------------
(* C22: the client is decided at import and never changes; when the        *)
(* connection failed then, no record is ever written, every submission     *)
(* whose worker returned answers 'completed', and every GET /tasks/{id}    *)
(* answers 503, also once the Redis server is reachable.                   *)
C22_ClientDecidedAtStartup ==
    /\ [][redis_client' = redis_client]_vars
    /\ [](~redis_client =>
            /\ store = <<>>
            /\ \A id \in UUIDs :
                GetTaskResponse(id) = HTTPException(503, <<"Redis not available">>)
            /\ \A p \in Submitted :
                Finished(p) /\ reqs[p].raised # "worker" =>
                    reqs[p].response =
                        TaskResponse(reqs[p].task_id, "completed", reqs[p].result)
            /\ \A g \in Gets :
                reqs[g].response = HTTPException(503, <<"Redis not available">>))
    /\ [][~redis_client /\ redis_up =>
            \A s \in Slots :
                /\ reqs[s].pc = "store" /\ reqs'[s].pc = "done" =>
                        store' = <<>> /\ reqs'[s].response.code = 200
                /\ reqs[s].pc = "idle" /\ reqs'[s].op = "get_task" =>
                        reqs'[s].response.code = 503
         ]_vars

C22_Witness ==
    /\ ~redis_client
    /\ redis_up
    /\ store = <<>>
    /\ \E p \in Submitted, g \in Gets :
        /\ Succeeded(p)
        /\ reqs[p].response.status = "completed"
        /\ reqs[g].task_id = reqs[p].task_id
        /\ reqs[g].response.code = 503

---------------------------------------------------------------------------
(* C23: a submission that ends in an error (its worker raised or its write *)
(* raised) has written nothing: the step that answers the error leaves the *)
(* store as it is, the store changes only in a step that answers a         *)
(* success, and no record of the failed submission's id exists afterwards. *)
C23_FailedSubmissionWritesNothing ==
    /\ [](\A p \in Submitted :
            reqs[p].raised # "none" =>
                /\ Finished(p)
                /\ reqs[p].response.code = 500
                /\ ~Stored(reqs[p].task_id))
    /\ [][/\ \A s \in Slots :
                reqs[s].pc \in {"execute", "store"} /\ reqs'[s].raised # "none"
                    => store' = store
          /\ store' # store =>
                \E s \in Slots :
                    /\ reqs[s].pc = "store"
                    /\ reqs'[s].pc = "done"
                    /\ reqs'[s].response.code = 200
                    /\ DOMAIN store' = DOMAIN store \cup {TaskKey(reqs[s].task_id)}
         ]_vars

C23_Witness ==
    \E p, q \in Submitted :
        /\ reqs[p].raised = "worker"
        /\ reqs[p].response.code = 500
        /\ Succeeded(q)
        /\ DOMAIN store = {TaskKey(reqs[q].task_id)}
        /\ Record(reqs[q].task_id)["timestamp"] < now

---------------------------------------------------------------------------
(* C24: when the value under a task key is not JSON, or is a JSON object   *)
(* without task_id or without status, a GET /tasks/{id} that reads it      *)
(* answers HTTP 500 and carries no task data; 'Invalid task data' for a    *)
(* text that is not JSON.                                                  *)
Corrupt(text) ==
    \/ ~JsonValid(text)
    \/ "task_id" \notin JsonKeys(text)
    \/ "status" \notin JsonKeys(text)

C24_CorruptRecordIs500 ==
    /\ [](\A id \in UUIDs :
            redis_client /\ Stored(id) /\ Corrupt(store[TaskKey(id)].value) =>
                /\ GetTaskResponse(id).code = 500
                /\ DOMAIN GetTaskResponse(id) = {"code", "detail"}
                /\ redis_up /\ Live(store, TaskKey(id))
                        /\ ~JsonValid(store[TaskKey(id)].value) =>
                    GetTaskResponse(id) = HTTPException(500, <<"Invalid task data">>))
    /\ [][\A s \in Slots :
            /\ reqs[s].pc = "idle"
            /\ reqs'[s].op = "get_task"
            /\ redis_client
            /\ Stored(reqs'[s].task_id)
            /\ Corrupt(store[TaskKey(reqs'[s].task_id)].value)
            => /\ reqs'[s].response.code = 500
               /\ "task_id" \notin DOMAIN reqs'[s].response
               /\ "status" \notin DOMAIN reqs'[s].response
         ]_vars

C24_Witness ==
    \E g, h \in Gets :
        /\ reqs[g].raised = "JSONDecodeError"
        /\ reqs[g].response = HTTPException(500, <<"Invalid task data">>)
        /\ reqs[h].raised = "KeyError"
        /\ reqs[h].response.code = 500

---------------------------------------------------------------------------
(* C25: on the single event loop a submission runs from the allocation of  *)
(* its id to its response with no step of another request in between: at  *)
(* most one request is inside its handler, and while it is there (the      *)
(* worker's sleep included) no other request starts, advances or ends.     *)
InHandler(s) == reqs[s].pc \in {"execute", "store"}

C25_HandlersRunToCompletion ==
    /\ [](\A p, q \in Slots : InHandler(p) /\ InHandler(q) => p = q)
    /\ [][\A p \in Slots :
            InHandler(p) =>
                /\ \A s \in Slots \ {p} : reqs'[s] = reqs[s]
                /\ reqs'[p] # reqs[p] => reqs'[p].task_id = reqs[p].task_id
         ]_vars

C25_Witness ==
    \E p, q \in Slots :
        /\ reqs[p].pc = "store"
        /\ reqs[q].op = "create_task"
        /\ Succeeded(q)
        /\ Stored(reqs[q].task_id)
        /\ Record(reqs[q].task_id)["timestamp"] < now

---------------------------------------------------------------------------
(* C26: the vectorstore is None until a POST /embed-documents succeeds and *)
(* is never None again: only a successful embed changes it, and it then    *)
(* holds the chunks of that request; a failed embed and a query leave it   *)
(* as it is; and once it is set no query is answered with 'No documents    *)
(* embedded yet'.                                                          *)
EmbedSucceeds == lc_last'.op = "embed_documents" /\ lc_last'.code = 200

C26_VectorstoreSetBySuccessfulEmbed ==
    /\ [][/\ vectorstore # None => vectorstore' # None
          /\ vectorstore' # vectorstore => EmbedSucceeds
          /\ lc_last' # lc_last /\ EmbedSucceeds =>
                /\ vectorstore' # None
                /\ Len(vectorstore'.documents) = lc_last'.chunks_created
                /\ \E text \in LcTexts, c \in LcChunking :
                        /\ c.chunk_overlap < c.chunk_size
                        /\ vectorstore' =
                            Chroma(split_text(text, c.chunk_size, c.chunk_overlap))
          /\ lc_last'.code = 500 => vectorstore' = vectorstore
         ]_lc_vars
    /\ [](vectorstore # None =>
            /\ lc_last.op = "query_documents" /\ lc_last.code # 200 =>
                    ~Contains(lc_last.detail, <<"No documents embedded yet">>)
            /\ \A query \in LcQueries, k \in 1..MaxK, search_raises \in BOOLEAN :
                \A results \in SimilaritySearches(query, k) :
                    LET r == QueryDocumentsResponse([query |-> query, k |-> k],
                                                    results, search_raises)
                    IN  r.code # 200 =>
                            ~Contains(r.detail, <<"No documents embedded yet">>))

C26_Witness ==
    /\ vectorstore # None
    /\ lc_last.op = "embed_documents"
    /\ lc_last.code = 500
    /\ embeddings

---------------------------------------------------------------------------
(* Vocabulary of the properties of the security service.                   *)

SecureProcessed == sec_last.op = "secure_process"
Authenticated == sec_last.authorization \in {"demo_key_123", "secure_key_456"}

\* the request carried a timestamp more than 300 seconds from the time of
\* the request
Supplied == sec_last.body.timestamp # <<>>
OutsideWindow ==
    \/ sec_last.at - sec_last.body.timestamp[1] > 300
    \/ sec_last.body.timestamp[1] - sec_last.at > 300

(* C27: an authenticated POST /secure-process with a (non-zero) timestamp  *)
(* more than 300 seconds from the current time is answered with HTTP 400   *)
(* 'Request timestamp too old or too far in future', and its data is not   *)
(* processed.                                                              *)
C27_StaleTimestampIs400 ==
    /\ SecureProcessed
    /\ Authenticated
    /\ sec_last.body.data = "hello"
    /\ Supplied
    /\ sec_last.body.timestamp[1] # 0
    /\ OutsideWindow
    => /\ sec_last.code = 400
       /\ sec_last.detail = <<"Request timestamp too old or too far in future">>
       /\ "result" \notin DOMAIN sec_last

(* C28: no supplied timestamp, 0 included, that is more than 300 seconds   *)
(* from the current time is accepted by POST /secure-process; only a       *)
(* request without timestamp skips the check.                              *)
C28_EverySuppliedTimestampChecked ==
    SecureProcessed /\ Supplied /\ OutsideWindow => sec_last.code # 200

(* C29: /secure-process and /security-info answer 200 only to a bearer     *)
(* token that is a key of API_KEYS; every other token is answered 401      *)
(* 'Invalid API key' and nothing is hashed for it; and the user that       *)
(* /security-info reports is the one of the key presented.                 *)
C29_OnlyKnownKeysSucceed ==
    /\ [](sec_last.op \in {"secure_process", "security_info"} =>
            /\ sec_last.code = 200 => Authenticated
            /\ ~Authenticated /\ sec_last.authorization # NoCredentials =>
                    /\ sec_last.code = 401
                    /\ sec_last.detail = <<"Invalid API key">>
            /\ sec_last.op = "security_info" /\ sec_last.code = 200 =>
                    /\ sec_last.authorization = "demo_key_123" =>
                            sec_last.user = "demo_user"
                    /\ sec_last.authorization = "secure_key_456" =>
                            sec_last.user = "admin_user")
    /\ [][sec_last' # sec_last /\ sec_last'.code # 200 => sec_hashed' = sec_hashed]_sec_vars

C29_Witness ==
    /\ sec_last.op = "security_info"
    /\ sec_last.authorization = "secure_key_456"
    /\ sec_last.code = 200
    /\ sec_last.user = "admin_user"
    /\ sec_hashed = {"hello"}

====
